---------------------------- MODULE Spec2Model ----------------------------
(***************************************************************************)
(* Model of the curve-extraction core of ESpice                            *)
(* (apps/desktop/src-tauri/src/curve_extraction.rs): the two entry points  *)
(* detect_colors and extract_curves and the pure functions they call.      *)
(*                                                                         *)
(* Numbers.  The f32/f64 values of the code are modelled as exact          *)
(* rationals <<n, d>> (d > 0, lowest terms); <<0, 0>> stands for NaN.      *)
(* Rounding error of the floating-point operations is not modelled, so     *)
(* the inputs of the model stay away from comparisons that are decided by  *)
(* the last bit.                                                           *)
(*                                                                         *)
(* Images.  The decoded RgbImage is a record [w, h, bg, rects]: a          *)
(* background colour and a list of painted rectangles; PixelAt gives the   *)
(* colour of each pixel.  Masks (Vec<bool> in the code) are the sets of    *)
(* the indices idx = y * width + x that hold true.                         *)
(*                                                                         *)
(* Style.  A value that is used more than once is passed as the argument   *)
(* of an operator rather than named in a LET, so that it is computed once. *)
(***************************************************************************)
EXTENDS Integers, Sequences, FiniteSets, TLC

\* ------------------------------------------------------------------------
\* f32 / f64 arithmetic on exact rationals
\* ------------------------------------------------------------------------

AbsInt(a) == IF a < 0 THEN -a ELSE a

RECURSIVE Gcd(_, _)
Gcd(a, b) == IF b = 0 THEN a ELSE Gcd(b, a % b)

Lowest(n, d, g) == <<n \div g, d \div g>>

\* n / d in lowest terms, for d # 0
Rat(n, d) ==
    IF d < 0 THEN Lowest(-n, -d, Gcd(AbsInt(n), AbsInt(d)))
    ELSE Lowest(n, d, Gcd(AbsInt(n), AbsInt(d)))

Num(k) == <<k, 1>>

NaN == <<0, 0>>

IsNaN(a) == a[2] = 0

FAdd(a, b) ==
    IF IsNaN(a) \/ IsNaN(b) THEN NaN
    ELSE Rat(a[1] * b[2] + b[1] * a[2], a[2] * b[2])

FSub(a, b) ==
    IF IsNaN(a) \/ IsNaN(b) THEN NaN
    ELSE Rat(a[1] * b[2] - b[1] * a[2], a[2] * b[2])

FMul(a, b) ==
    IF IsNaN(a) \/ IsNaN(b) THEN NaN
    ELSE Rat(a[1] * b[1], a[2] * b[2])

\* a / b for b # 0 (every division of the code has a non-zero divisor)
FDiv(a, b) ==
    IF IsNaN(a) \/ IsNaN(b) THEN NaN
    ELSE Rat(a[1] * b[2], a[2] * b[1])

FAbs(a) == <<AbsInt(a[1]), a[2]>>

\* The comparisons of IEEE numbers: each is false when an operand is NaN.
FLt(a, b) == ~IsNaN(a) /\ ~IsNaN(b) /\ a[1] * b[2] < b[1] * a[2]

FLe(a, b) == ~IsNaN(a) /\ ~IsNaN(b) /\ a[1] * b[2] <= b[1] * a[2]

FGt(a, b) == FLt(b, a)

FGe(a, b) == FLe(b, a)

\* f32::max / f32::min on numbers
FMax(a, b) == IF FLt(a, b) THEN b ELSE a

FMin(a, b) == IF FLt(b, a) THEN b ELSE a

\* the integer part of a number, toward zero
FTrunc(q) == IF q[1] >= 0 THEN q[1] \div q[2] ELSE -((-q[1]) \div q[2])

\* Rust's % on floats: the remainder of the truncated division, which has
\* the sign of the dividend.
FRem(a, m) == FSub(a, FMul(Num(FTrunc(FDiv(a, m))), m))

\* f64::round: to the nearest integer, halves away from zero.
FRound(a) ==
    IF a[1] < 0 THEN -((2 * (-a[1]) + a[2]) \div (2 * a[2]))
    ELSE (2 * a[1] + a[2]) \div (2 * a[2])

\* `as i64` of f64::round: NaN becomes 0.
RoundAsI64(a) == IF IsNaN(a) THEN 0 ELSE FRound(a)

\* ------------------------------------------------------------------------
\* Constants of the code
\* ------------------------------------------------------------------------

\* const BIN_SIZE: f64 = 0.01
BIN_SIZE == Rat(1, 100)

\* the outlier cutoff 2.0 * 0.2
OutlierCutoff == FMul(Num(2), Rat(2, 10))

\* the floor of the component size gate, (width * height / 1000).max(1000)
MinComponentFloor == 1000

\* the divisor of the adaptive size gate
MinComponentDivisor == 1000

\* ------------------------------------------------------------------------
\* The palette
\* ------------------------------------------------------------------------

ColorRange(lo, up, display, base, tol) ==
    [lower |-> lo, upper |-> up, display_color |-> display,
     base_color |-> base, tolerance |-> tol]

\* The mutant of get_color_ranges: the orange range starts at hue 0, inside red.
get_color_ranges_orange_from_red ==
    [red     |-> ColorRange(<<0, 120, 100>>,   <<15, 255, 255>>,  "#FF0000", "red",     Rat(12, 100)),
     red2    |-> ColorRange(<<165, 120, 100>>, <<180, 255, 255>>, "#FF0000", "red",     Rat(12, 100)),
     blue    |-> ColorRange(<<85, 120, 100>>,  <<135, 255, 255>>, "#0000FF", "blue",    Rat(10, 100)),
     green   |-> ColorRange(<<35, 120, 100>>,  <<85, 255, 255>>,  "#00FF00", "green",   Rat(15, 100)),
     yellow  |-> ColorRange(<<10, 120, 100>>,  <<45, 255, 255>>,  "#FFFF00", "yellow",  Rat(18, 100)),
     cyan    |-> ColorRange(<<75, 120, 100>>,  <<105, 255, 255>>, "#00FFFF", "cyan",    Rat(12, 100)),
     magenta |-> ColorRange(<<135, 120, 100>>, <<175, 255, 255>>, "#FF00FF", "magenta", Rat(15, 100)),
     orange  |-> ColorRange(<<0, 120, 100>>,   <<25, 255, 255>>,  "#FFA500", "orange",  Rat(20, 100)),
     purple  |-> ColorRange(<<120, 120, 100>>, <<150, 255, 255>>, "#800080", "purple",  Rat(15, 100))]

get_color_ranges ==
    [red     |-> ColorRange(<<0, 120, 100>>,   <<15, 255, 255>>,  "#FF0000", "red",     Rat(12, 100)),
     red2    |-> ColorRange(<<165, 120, 100>>, <<180, 255, 255>>, "#FF0000", "red",     Rat(12, 100)),
     blue    |-> ColorRange(<<85, 120, 100>>,  <<135, 255, 255>>, "#0000FF", "blue",    Rat(10, 100)),
     green   |-> ColorRange(<<35, 120, 100>>,  <<85, 255, 255>>,  "#00FF00", "green",   Rat(15, 100)),
     yellow  |-> ColorRange(<<10, 120, 100>>,  <<45, 255, 255>>,  "#FFFF00", "yellow",  Rat(18, 100)),
     cyan    |-> ColorRange(<<75, 120, 100>>,  <<105, 255, 255>>, "#00FFFF", "cyan",    Rat(12, 100)),
     magenta |-> ColorRange(<<135, 120, 100>>, <<175, 255, 255>>, "#FF00FF", "magenta", Rat(15, 100)),
     orange  |-> ColorRange(<<3, 120, 100>>,   <<25, 255, 255>>,  "#FFA500", "orange",  Rat(20, 100)),
     purple  |-> ColorRange(<<120, 120, 100>>, <<150, 255, 255>>, "#800080", "purple",  Rat(15, 100))]

PaletteKeys ==
    {"red", "red2", "blue", "green", "yellow", "cyan", "magenta", "orange", "purple"}

\* ------------------------------------------------------------------------
\* The color classifier
\* ------------------------------------------------------------------------

rgb_to_hsv(r8, g8, b8) ==
    LET r == Rat(r8, 255)
        g == Rat(g8, 255)
        b == Rat(b8, 255)
        max == FMax(r, FMax(g, b))
        min == FMin(r, FMin(g, b))
        delta == FSub(max, min)
        h == IF delta = Num(0) THEN Num(0)
             ELSE IF max = r
                  THEN FMul(Num(60), FRem(FDiv(FSub(g, b), delta), Num(6)))
             ELSE IF max = g
                  THEN FMul(Num(60), FAdd(FDiv(FSub(b, r), delta), Num(2)))
             ELSE FMul(Num(60), FAdd(FDiv(FSub(r, g), delta), Num(4)))
        s == IF max = Num(0) THEN Num(0) ELSE FDiv(delta, max)
    IN  [h |-> h, s |-> s, v |-> max]

color_matches_range(h, s, v, range) ==
    LET h_normalized == FDiv(h, Num(2))
        one == Num(1)
        h_match ==
            IF range.lower[1] > range.upper[1]
            THEN FGe(h_normalized, Num(range.lower[1]))
                 \/ FLe(h_normalized, Num(range.upper[1]))
            ELSE FGe(h_normalized, Num(range.lower[1]))
                 /\ FLe(h_normalized, Num(range.upper[1]))
        s255 == FMul(s, Num(255))
        v255 == FMul(v, Num(255))
        s_match == /\ FGe(s255, FMul(Num(range.lower[2]), FSub(one, range.tolerance)))
                   /\ FLe(s255, FMul(Num(range.upper[2]), FAdd(one, range.tolerance)))
        v_match == /\ FGe(v255, FMul(Num(range.lower[3]), FSub(one, range.tolerance)))
                   /\ FLe(v255, FMul(Num(range.upper[3]), FAdd(one, range.tolerance)))
    IN  h_match /\ s_match /\ v_match

HsvMatches(hsv, range) == color_matches_range(hsv.h, hsv.s, hsv.v, range)

\* Whether a pixel of colour rgb is true in the mask of `range`
\* (the closure of create_color_mask).
PixelMatches(rgb, range) == HsvMatches(rgb_to_hsv(rgb[1], rgb[2], rgb[3]), range)

\* The base-color tags of the palette ranges a colour matches.
MatchedBases(rgb) ==
    {get_color_ranges[k].base_color :
        k \in {kk \in PaletteKeys : PixelMatches(rgb, get_color_ranges[kk])}}

\* ------------------------------------------------------------------------
\* Images and masks
\* ------------------------------------------------------------------------

Rect(x0, y0, x1, y1, rgb) == [x0 |-> x0, y0 |-> y0, x1 |-> x1, y1 |-> y1, rgb |-> rgb]

Image(w, h, bg, rects) == [w |-> w, h |-> h, bg |-> bg, rects |-> rects]

NonEmptyOrNone(T) == IF Cardinality(T) = 0 THEN {} ELSE T

\* S itself, as an explicitly enumerated set.
Enumerated(S) == NonEmptyOrNone({x : x \in S})

MaxOf(S) == CHOOSE m \in S : \A k \in S : k <= m

MinOf(S) == CHOOSE m \in S : \A k \in S : m <= k

\* the colours an image holds
ImageColors(image) ==
    {image.bg} \cup {image.rects[i].rgb : i \in 1..Len(image.rects)}

\* the rectangles that cover the pixel (x, y)
RectsAt(image, x, y) ==
    {i \in 1..Len(image.rects) :
        /\ image.rects[i].x0 <= x /\ x <= image.rects[i].x1
        /\ image.rects[i].y0 <= y /\ y <= image.rects[i].y1}

TopColor(image, hits) == IF hits = {} THEN image.bg ELSE image.rects[MaxOf(hits)].rgb

\* image.pixels(): the colour of the pixel with index idx = y * width + x
PixelAt(image, idx) == TopColor(image, RectsAt(image, idx % image.w, idx \div image.w))

RectPixels(image, r) ==
    {y * image.w + x : x \in r.x0..r.x1, y \in r.y0..r.y1}

AllPixels(image) == 0..(image.w * image.h - 1)

PaintedPixels(image) ==
    UNION {RectPixels(image, image.rects[i]) : i \in 1..Len(image.rects)}

\* The pixels whose colour is one of `matching`.  In an image of one colour
\* that is every pixel or none; where the background is not among them, only
\* painted pixels can be.
PixelsOfColors(image, matching) ==
    IF image.rects = <<>>
    THEN IF image.bg \in matching THEN AllPixels(image) ELSE {}
    ELSE Enumerated({p \in (IF image.bg \in matching THEN AllPixels(image)
                                                      ELSE PaintedPixels(image)) :
                        PixelAt(image, p) \in matching})

\* create_color_mask: the pixels whose HSV value matches the range.  The
\* classification depends on the colour alone, so it is computed once per
\* colour of the image.
create_color_mask(image, range) ==
    PixelsOfColors(image, {c \in ImageColors(image) : PixelMatches(c, range)})

\* ------------------------------------------------------------------------
\* Mask processor
\* ------------------------------------------------------------------------

\* the loop bounds `for y in 1..height-1`, `for x in 1..width-1`
InteriorPixel(idx, width, height) ==
    /\ 1 <= idx % width /\ idx % width <= width - 2
    /\ 1 <= idx \div width /\ idx \div width <= height - 2

Neighbourhood9(idx, width) ==
    {idx - width - 1, idx - width, idx - width + 1,
     idx - 1, idx, idx + 1,
     idx + width - 1, idx + width, idx + width + 1}

\* The mutant of Eroded: six true pixels of the nine are enough.
ErodedSixOfNine(mask, width, height) ==
    Enumerated({p \in 0..(width * height - 1) :
                  /\ InteriorPixel(p, width, height)
                  /\ Cardinality({q \in Neighbourhood9(p, width) : q \in mask}) >= 6})

\* Erosion: an interior pixel stays when all nine pixels around it are true
\* (all_true) and at least six of them are (neighbor_count >= 6).  The centre
\* is one of the nine, so only pixels of the mask can stay.
Eroded(mask, width, height) ==
    Enumerated({p \in mask :
                  /\ InteriorPixel(p, width, height)
                  /\ \A q \in Neighbourhood9(p, width) : q \in mask
                  /\ Cardinality({q \in Neighbourhood9(p, width) : q \in mask}) >= 6})

\* The mutant of Dilated: the pixels of the image border are written too.
DilatedToBorder(result, width, height) ==
    Enumerated(UNION {Neighbourhood9(p, width) : p \in result})

\* Dilation: an interior pixel becomes true when one of the nine pixels
\* around it is true in the eroded mask.
Dilated(result, width, height) ==
    Enumerated({q \in UNION {Neighbourhood9(p, width) : p \in result} :
                  InteriorPixel(q, width, height)})

morphological_open(mask, width, height) ==
    Dilated(Eroded(mask, width, height), width, height)

\* ------------------------------------------------------------------------
\* Component filter
\* ------------------------------------------------------------------------

\* The mutant of Neighbours8: the 4 neighbours that share an edge.
Neighbours4(idx, width, height) ==
    {q \in {idx - width, idx - 1, idx + 1, idx + width} :
        /\ q >= 0 /\ q < width * height
        /\ AbsInt((q % width) - (idx % width)) <= 1}

\* the neighbours the traversal pushes: the 8 around (cx, cy) inside the image
Neighbours8(idx, width, height) ==
    {q \in Neighbourhood9(idx, width) \ {idx} :
        /\ q >= 0 /\ q < width * height
        /\ AbsInt((q % width) - (idx % width)) <= 1}

\* the unvisited mask pixels around the pixels added last
Frontier(mask, width, height, s) ==
    {q \in UNION {Neighbours8(p, width, height) : p \in s[2]} :
        q \in mask /\ q \notin s[1]}

Grow(visited, next) == <<Enumerated(visited \cup next), next>>

\* One round of the traversal: s = <<visited part of the component, the pixels
\* added last>>.
FloodRound(mask, width, height, s) ==
    Grow(s[1], Frontier(mask, width, height, s))

FloodRounds8(mask, width, height, s) ==
    FloodRound(mask, width, height, FloodRound(mask, width, height,
    FloodRound(mask, width, height, FloodRound(mask, width, height,
    FloodRound(mask, width, height, FloodRound(mask, width, height,
    FloodRound(mask, width, height, FloodRound(mask, width, height, s))))))))

\* The stack-based traversal from a seed: it ends with exactly the mask pixels
\* that an 8-connected path in the mask joins to the seed.  (The code visits
\* them depth-first; the set it collects does not depend on the order.)
RECURSIVE FloodFill(_, _, _, _)
FloodFill(mask, width, height, s) ==
    IF s[2] = {} THEN s[1]
    ELSE FloodFill(mask, width, height, FloodRounds8(mask, width, height, s))

Extent(S) == MaxOf(S) - MinOf(S) + 1

\* The mutant of AspectPasses: the two bounds are let in.
AspectPassesNonStrict(aspect_ratio) ==
    FGe(aspect_ratio, Rat(3, 10)) /\ FLe(aspect_ratio, Num(10))

\* aspect_ratio > 0.3 && aspect_ratio < 10.0
AspectPasses(aspect_ratio) ==
    FGt(aspect_ratio, Rat(3, 10)) /\ FLt(aspect_ratio, Num(10))

\* The two gates of a component.
ComponentPasses(component, width, min_size) ==
    /\ Cardinality(component) >= min_size
    /\ AspectPasses(Rat(Extent({p % width : p \in component}),
                        Extent({p \div width : p \in component})))

RECURSIVE FilterScan(_, _, _, _, _, _)

\* A component found: its pixels are visited, and kept if it passes the gates.
FilterComponent(mask, width, height, min_size, visited, result, component) ==
    FilterScan(mask, width, height, min_size,
               Enumerated(visited \cup component),
               IF ComponentPasses(component, width, min_size)
               THEN Enumerated(result \cup component)
               ELSE result)

Seed(p) == <<{p}, {p}>>

FilterFrom(mask, width, height, min_size, visited, result, unvisited) ==
    IF unvisited = {} THEN result
    ELSE FilterComponent(mask, width, height, min_size, visited, result,
                         FloodFill(mask, width, height,
                                   Seed(CHOOSE p \in unvisited : TRUE)))

\* The scan over the mask: each unvisited true pixel seeds a component.  The
\* code takes the seeds in scan order; the components, and so the result, are
\* the same whichever pixel of a component seeds it.
FilterScan(mask, width, height, min_size, visited, result) ==
    FilterFrom(mask, width, height, min_size, visited, result,
               {p \in mask : p \notin visited})

filter_connected_components(mask, width, height, min_size) ==
    FilterScan(mask, width, height, min_size, {}, {})

\* The mutant of MinSize: the adaptive size alone, without .max(1000).
MinSizeAdaptiveOnly(width, height) == (width * height) \div MinComponentDivisor

\* let min_size = (width * height / 1000).max(1000)
MinSize(width, height) ==
    IF (width * height) \div MinComponentDivisor >= MinComponentFloor
    THEN (width * height) \div MinComponentDivisor
    ELSE MinComponentFloor

\* The mask stages of extract_curves for one palette range, lines 465-472.
FilteredMask(image, range) ==
    filter_connected_components(
        morphological_open(create_color_mask(image, range), image.w, image.h),
        image.w, image.h, MinSize(image.w, image.h))

\* ------------------------------------------------------------------------
\* Inputs
\* ------------------------------------------------------------------------

\* side of the small solid images
MaxSide == 2

\* painted pixels of the speck images
MaxSpeck == 2

PureRed == <<255, 0, 0>>

Crimson == <<200, 20, 30>>

Amber == <<255, 100, 0>>

PureBlue == <<0, 0, 255>>

White == <<255, 255, 255>>

Solid(w, h, rgb) == Image(w, h, rgb, <<>>)

\* a red image with one blue pixel
TwoTone == Image(3, 2, PureRed, <<Rect(0, 0, 0, 0, PureBlue)>>)

\* a white 50 x 40 image (2000 pixels) with k red pixels
Speck(k) == Image(50, 40, White, <<Rect(0, 0, k - 1, 0, PureRed)>>)

\* a red step-shaped blob of 1152 pixels on white
StepBlob ==
    Image(40, 40, White,
          <<Rect(2, 4, 19, 35, PureRed), Rect(20, 2, 37, 33, PureRed)>>)

\* a red block and a blue block of 1080 pixels each
TwoBlocks ==
    Image(40, 68, White,
          <<Rect(2, 2, 37, 31, PureRed), Rect(2, 36, 37, 65, PureBlue)>>)

\* a red block of 100 pixels: too small for the size gate
SmallBlob == Image(40, 40, White, <<Rect(10, 10, 19, 19, PureRed)>>)

\* a red block of 27 x 37 = 999 pixels: one pixel short of the size gate
Block999 == Image(40, 40, White, <<Rect(1, 1, 27, 37, PureRed)>>)

\* a red block of 25 x 40 = 1000 pixels: the size gate exactly
Block1000 == Image(40, 42, White, <<Rect(1, 1, 25, 40, PureRed)>>)

\* 1100 x 1000 images, whose adaptive size gate is 1100: a red block of
\* 30 x 35 = 1050 pixels and one of 30 x 37 = 1110 pixels
Wide1050 == Image(1100, 1000, White, <<Rect(10, 10, 39, 44, PureRed)>>)

Wide1110 == Image(1100, 1000, White, <<Rect(10, 10, 39, 46, PureRed)>>)

\* the literal images of the end-to-end scenarios: 1000 x 1000, white with a
\* 5-pixel red line across y = 500 and a 5-pixel blue line across y = 250;
\* and solid red
Scenario3Image ==
    Image(1000, 1000, White,
          <<Rect(0, 498, 999, 502, PureRed), Rect(0, 248, 999, 252, PureBlue)>>)

SolidRed1000 == Solid(1000, 1000, PureRed)

SmallRasters ==
    {Solid(w, h, c) : w \in 1..MaxSide, h \in 1..MaxSide,
                      c \in {PureRed, Crimson, Amber, White}}
    \cup {TwoTone} \cup {Speck(k) : k \in 1..MaxSpeck}

BlobRasters == {StepBlob, TwoBlocks, SmallBlob}

NoRaster == Image(0, 0, <<0, 0, 0>>, <<>>)

\* image_data: an encoded image, a zero-byte buffer, or bytes no decoder takes
Encoded(raster) == [kind |-> "encoded", raster |-> raster]

EmptyBuffer == [kind |-> "empty", raster |-> NoRaster]

Garbage == [kind |-> "garbage", raster |-> NoRaster]

\* ------------------------------------------------------------------------
\* detect_colors
\* ------------------------------------------------------------------------

\* mask.iter().filter(|&&b| b).count()
PixelCount(image, color_range) == Cardinality(create_color_mask(image, color_range))

\* The mutant of MinPixels: the threshold never falls below 1.
MinPixelsAtLeastOne(total_pixels) ==
    IF FTrunc(FMul(Num(total_pixels), Rat(5, 10000))) < 1 THEN 1
    ELSE FTrunc(FMul(Num(total_pixels), Rat(5, 10000)))

\* let min_pixels = (total_pixels as f64 * 0.0005) as usize
MinPixels(total_pixels) == FTrunc(FMul(Num(total_pixels), Rat(5, 10000)))

\* The mutant of ExceedsThreshold: >= for >.
ReachesThreshold(pixel_count, min_pixels) == pixel_count >= min_pixels

\* pixel_count > min_pixels
ExceedsThreshold(pixel_count, min_pixels) == pixel_count > min_pixels

\* The mutant of MarkProcessed: the base color is not recorded.
MarkNothing(processed, base_color) == processed

\* processed_base_colors.insert(color_range.base_color)
MarkProcessed(processed, base_color) == processed \cup {base_color}

DetectedColor(range, pixel_count) ==
    [name |-> range.base_color, display_name |-> range.base_color,
     color |-> range.display_color, pixel_count |-> pixel_count]

\* The mutant of InsertByPixelCount: smallest pixel_count first.
InsertByPixelCountAscending(sorted, e) ==
    SelectSeq(sorted, LAMBDA d : d.pixel_count <= e.pixel_count)
    \o <<e>>
    \o SelectSeq(sorted, LAMBDA d : d.pixel_count > e.pixel_count)

\* e goes behind the entries whose pixel_count is at least its own
InsertByPixelCount(sorted, e) ==
    SelectSeq(sorted, LAMBDA d : d.pixel_count >= e.pixel_count)
    \o <<e>>
    \o SelectSeq(sorted, LAMBDA d : d.pixel_count < e.pixel_count)

\* detected_colors.sort_by(|a, b| b.pixel_count.cmp(&a.pixel_count)): a stable
\* sort, largest pixel_count first; entries that compare equal keep their order.
RECURSIVE SortByPixelCount(_)
SortByPixelCount(colors) ==
    IF colors = <<>> THEN <<>>
    ELSE InsertByPixelCount(SortByPixelCount(SubSeq(colors, 1, Len(colors) - 1)),
                            colors[Len(colors)])

Ok(value) == [ok |-> TRUE, value |-> value, error |-> ""]

Err(message) == [ok |-> FALSE, value |-> <<>>, error |-> message]

NoResult == [ok |-> FALSE, value |-> <<>>, error |-> "(running)"]

\* ------------------------------------------------------------------------
\* extract_curves: coordinate mapper
\* ------------------------------------------------------------------------

GraphConfig(x_min, x_max, y_min, y_max, x_scale, y_scale, x_scale_type, y_scale_type) ==
    [x_min |-> x_min, x_max |-> x_max, y_min |-> y_min, y_max |-> y_max,
     x_scale |-> x_scale, y_scale |-> y_scale,
     x_scale_type |-> x_scale_type, y_scale_type |-> y_scale_type]

\* (lo.ln() + f * (hi.ln() - lo.ln())).exp() for 0 <= f <= 1, where the value
\* is a rational or NaN: ln of a negative number is NaN, ln(0) is -inf,
\* -inf + inf and 0 * inf are NaN.  For two different positive endpoints the
\* value is irrational; the configurations of the model leave that case out.
LogInterpolate(lo, hi, f) ==
    CASE FLt(lo, Num(0)) \/ FLt(hi, Num(0)) -> NaN
      [] lo = Num(0) -> NaN
      [] hi = Num(0) -> IF f = Num(0) THEN NaN ELSE Num(0)
      [] lo = hi -> lo

\* let logical_x = ..., lines 481-487
LogicalX(config, x, width) ==
    IF config.x_scale_type = "linear"
    THEN FAdd(FDiv(FMul(Num(x), FSub(config.x_max, config.x_min)), Num(width)),
              config.x_min)
    ELSE LogInterpolate(config.x_min, config.x_max, FDiv(Num(x), Num(width)))

\* let logical_y = ..., lines 489-495
LogicalY(config, y, height) ==
    IF config.y_scale_type = "linear"
    THEN FAdd(FDiv(FMul(Num(height - y), FSub(config.y_max, config.y_min)), Num(height)),
              config.y_min)
    ELSE LogInterpolate(config.y_min, config.y_max, FDiv(Num(height - y), Num(height)))

\* The true pixels of a mask in the order of the scan `for y .. for x ..`.
PixelSeq(mask, total) ==
    IF mask = {} THEN <<>>
    ELSE SelectSeq([j \in 1..total |-> j - 1], LAMBDA p : p \in mask)

\* the points pushed for the pixels, in their order
PointsOf(pixels, image, config) ==
    SubSeq([j \in 1..Len(pixels) |->
               <<LogicalX(config, pixels[j] % image.w, image.w),
                 LogicalY(config, pixels[j] \div image.w, image.h)>>],
           1, Len(pixels))

\* The points pushed for one palette range, lines 465-500.
MappedPoints(image, color_range, config) ==
    PointsOf(PixelSeq(FilteredMask(image, color_range), image.w * image.h),
             image, config)

\* The mutant of Lookup: a name the palette does not hold falls back to red.
LookupOrRed(color_key) ==
    IF color_key \in PaletteKeys THEN {get_color_ranges[color_key]}
    ELSE {get_color_ranges["red"]}

\* color_ranges.get(color_key.as_str()): the Option as a set, the entry under
\* the key itself or nothing.
Lookup(color_key) ==
    IF color_key \in PaletteKeys THEN {get_color_ranges[color_key]} ELSE {}

\* The mutant of GroupKey: the points are grouped under the selected name.
GroupKeyByName(color_name, color_range) == color_name

\* let base_color = color_range.base_color.to_string()
GroupKey(color_name, color_range) == color_range.base_color

\* The mutant of ExtendEntry: the points replace those the entry holds.
InsertEntry(map, base_color, points) ==
    IF base_color \in DOMAIN map
    THEN [map EXCEPT ![base_color] = points]
    ELSE map @@ (base_color :> points)

\* base_color_points.entry(base_color).or_insert_with(Vec::new).extend(points)
ExtendEntry(map, base_color, points) ==
    IF base_color \in DOMAIN map
    THEN [map EXCEPT ![base_color] = @ \o points]
    ELSE map @@ (base_color :> points)

\* ------------------------------------------------------------------------
\* extract_curves: curve reconstructor
\* ------------------------------------------------------------------------

\* the sum of a non-empty part s[lo..hi] of a sequence of numbers
RECURSIVE SumRange(_, _, _)
SumRange(s, lo, hi) ==
    IF lo = hi THEN s[lo]
    ELSE FAdd(SumRange(s, lo, (lo + hi) \div 2),
              SumRange(s, (lo + hi) \div 2 + 1, hi))

Sum(s) == IF Len(s) = 0 THEN Num(0) ELSE SumRange(s, 1, Len(s))

\* let bin_x = (x / BIN_SIZE).round() as i64
BinOf(x) == RoundAsI64(FDiv(x, BIN_SIZE))

\* The mutant of BinX: the key is divided as an integer before it is scaled,
\* so that ten keys share an x.
BinXOfTen(bin_x) == FMul(Num(bin_x \div 10), FMul(Num(10), BIN_SIZE))

\* let x_val = bin_x as f64 * BIN_SIZE
BinX(bin_x) == FMul(Num(bin_x), BIN_SIZE)

\* The HashMap `data`, lines 517-521, as the sequence of the points keyed by
\* bin_x: the Vec of a key holds the y values pushed under it, in order.
Keyed(points) ==
    SubSeq([j \in 1..Len(points) |-> <<BinOf(points[j][1]), points[j][2]>>],
           1, Len(points))

SecondOf(pairs) == SubSeq([j \in 1..Len(pairs) |-> pairs[j][2]], 1, Len(pairs))

\* the y values pushed under one key, in order
YValues(keyed, bin_x) == SecondOf(SelectSeq(keyed, LAMBDA e : e[1] = bin_x))

BinKeys(keyed) == {keyed[j][1] : j \in 1..Len(keyed)}

\* The mutant of Median: the upper middle value, whatever the count.
MedianUpperMiddle(sorted_y) == sorted_y[Len(sorted_y) \div 2 + 1]

\* sorted_y[len / 2 - 1], sorted_y[len / 2] are the 0-based places of the code
Median(sorted_y) ==
    IF Len(sorted_y) % 2 = 0
    THEN FDiv(FAdd(sorted_y[Len(sorted_y) \div 2], sorted_y[Len(sorted_y) \div 2 + 1]),
              Num(2))
    ELSE sorted_y[Len(sorted_y) \div 2 + 1]

WithinCutoff(sorted_y, median) ==
    SelectSeq(sorted_y, LAMBDA y : FLt(FAbs(FSub(y, median)), OutlierCutoff))

KeepNearMedian(sorted_y) == WithinCutoff(sorted_y, Median(sorted_y))

\* The retained values of a bin, lines 530-542.
Retained(y_vals) == KeepNearMedian(SortSeq(y_vals, LAMBDA a, b : FLt(a, b)))

MeanPoint(bin_x, filtered) ==
    IF filtered # <<>>
    THEN <<<<BinX(bin_x), FDiv(Sum(filtered), Num(Len(filtered)))>>>>
    ELSE <<>>

\* The body of the loop over `data`, lines 525-549: no point or one.
BinPoints(bin_x, y_vals) == MeanPoint(bin_x, Retained(y_vals))

\* the keys from `top` down to `bottom`
Descending(keys, top, bottom) ==
    SelectSeq([j \in 1..(top - bottom + 1) |-> top - j + 1], LAMBDA k : k \in keys)

RECURSIVE PointsOfBins(_, _, _)
PointsOfBins(keyed, keys, j) ==
    IF j > Len(keys) THEN <<>>
    ELSE BinPoints(keys[j], YValues(keyed, keys[j])) \o PointsOfBins(keyed, keys, j + 1)

\* final_points.sort_by(|a, b| a.0.partial_cmp(&b.0)...)
SortByX(points) == SortSeq(points, LAMBDA a, b : FLt(a[1], b[1]))

BinnedPoints(keyed, keys) ==
    PointsOfBins(keyed, Descending(keys, MaxOf(keys), MinOf(keys)), 1)

Binned(keyed) == BinnedPoints(keyed, BinKeys(keyed))

\* final_points, lines 517-552.  The HashMap yields its bins in an arbitrary
\* order and the sort that follows puts them, whose x values differ, in the
\* one ascending order; the model takes the bins by descending key.
FinalPoints(points) == SortByX(Binned(Keyed(points)))

ClampInt(v, lo, hi) == IF v < lo THEN lo ELSE IF v > hi THEN hi ELSE v

\* The mutant of SmoothWindow: the window of red for every base color.
SmoothWindowOfRed(base_color, len) == ClampInt(len \div 10, 5, 25)

\* let smooth_window = match base_color.as_str() { ... }
SmoothWindow(base_color, len) ==
    CASE base_color = "red" -> ClampInt(len \div 10, 5, 25)
      [] base_color = "blue" -> ClampInt(len \div 12, 5, 20)
      [] OTHER -> ClampInt(len \div 15, 3, 15)

\* 1.0 / (1.0 + dist * 0.5) with dist = (j - count / 2.0).abs()
Weight(j, count) ==
    FDiv(Num(1), FAdd(Num(1), FMul(FAbs(FSub(Num(j), FDiv(Num(count), Num(2)))),
                                   Rat(1, 2))))

Weights(count) == SubSeq([j \in 1..count |-> Weight(j - 1, count)], 1, count)

Weighted(slice, weights) ==
    SubSeq([j \in 1..Len(slice) |-> FMul(slice[j], weights[j])], 1, Len(slice))

WeightedAverage(slice, weights) == FDiv(Sum(Weighted(slice, weights)), Sum(weights))

SmoothedSlice(slice) == WeightedAverage(slice, Weights(Len(slice)))

\* result.push(weighted_sum / weight_sum) for the place i (0-based) of data
Smoothed(data, half_window, i) ==
    SmoothedSlice(SubSeq(data,
                         (IF i - half_window < 0 THEN 0 ELSE i - half_window) + 1,
                         IF i + half_window + 1 > Len(data) THEN Len(data)
                         ELSE i + half_window + 1))

savgol_smooth(data, window) ==
    IF Len(data) <= window THEN data
    ELSE SubSeq([i \in 1..Len(data) |-> Smoothed(data, window \div 2, i - 1)],
                1, Len(data))

\* x * config.x_scale
ScaledX(x, config) == FMul(x, config.x_scale)

\* y * config.y_scale
ScaledY(y, config) == FMul(y, config.y_scale)

CurvePoint(x, y) == [x |-> x, y |-> y]

FirstOf(pairs) == SubSeq([j \in 1..Len(pairs) |-> pairs[j][1]], 1, Len(pairs))

\* lines 559-569
SmoothedY(base_color, y_vals) ==
    IF Len(y_vals) > SmoothWindow(base_color, Len(y_vals))
    THEN savgol_smooth(y_vals, SmoothWindow(base_color, Len(y_vals)))
    ELSE y_vals

\* lines 572-584
CurvePoints(x_vals, smoothed_y, config) ==
    SubSeq([j \in 1..Len(x_vals) |->
               CurvePoint(ScaledX(x_vals[j], config), ScaledY(smoothed_y[j], config))],
           1, Len(x_vals))

DisplayColor(base_color) ==
    IF base_color \in PaletteKeys
    THEN get_color_ranges[base_color].display_color
    ELSE "#000000"

\* The curve of one base color, lines 555-597 (the label of a point, a
\* rendering of its x and y, is left out).
CurveData(base_color, final_points, config) ==
    [name |-> base_color,
     color |-> DisplayColor(base_color),
     points |-> CurvePoints(FirstOf(final_points),
                            SmoothedY(base_color, SecondOf(final_points)),
                            config),
     representation |-> base_color,
     point_count |-> Len(final_points)]

\* ------------------------------------------------------------------------
\* Calls
\* ------------------------------------------------------------------------

Linear(x_min, x_max, y_min, y_max, x_scale, y_scale) ==
    GraphConfig(x_min, x_max, y_min, y_max, x_scale, y_scale, "linear", "linear")

UnitConfig == Linear(Num(0), Num(1), Num(0), Num(1), Num(1), Num(1))

\* x in [0.012, 0.016]: the whole image lies within two bins
NarrowConfig == Linear(Rat(12, 1000), Rat(16, 1000), Num(0), Num(1), Num(1), Num(1))

NegativeXScale == Linear(Num(0), Num(1), Num(0), Num(1), Num(-1), Num(1))

NegativeYScale == Linear(Num(0), Num(1), Num(0), Num(1), Num(1), Num(-2))

ZeroXScale == Linear(Num(0), Num(1), Num(0), Num(1), Num(0), Num(1))

\* y in [0, 10]: the rows of a blob are further apart than the outlier cutoff
TallConfig == Linear(Num(0), Num(1), Num(0), Num(10), Num(3), Num(2))

\* x_min > x_max and y_min > y_max
ReversedConfig == Linear(Num(1), Num(0), Num(1), Num(0), Num(1), Num(1))

\* a log x axis over negative values
LogNegativeX ==
    GraphConfig(Num(-3), Num(-2), Num(0), Num(1), Num(1), Num(1), "log", "linear")

\* a log y axis from 0
LogFromZeroY ==
    GraphConfig(Num(0), Num(1), Num(0), Num(1), Num(1), Num(1), "linear", "log")

\* a log x axis from 0 to 10
LogFromZeroX ==
    GraphConfig(Num(0), Num(10), Num(0), Num(1), Num(1), Num(1), "log", "linear")

\* a scale type that is neither "linear" nor "log"
UnknownScaleType ==
    GraphConfig(Num(0), Num(1), Num(0), Num(1), Num(1), Num(1), "sqrt", "linear")

Configs ==
    {UnitConfig, NarrowConfig, NegativeXScale, NegativeYScale, ZeroXScale,
     TallConfig, ReversedConfig, LogNegativeX, LogFromZeroY, LogFromZeroX,
     UnknownScaleType}

NoConfig == Linear(Num(0), Num(0), Num(0), Num(0), Num(0), Num(0))

\* color_name.to_lowercase() on the names the calls use
to_lowercase ==
    [n \in {"red", "RED", "red2", "blue", "Blue", "teal"} |->
        CASE n = "RED" -> "red"
          [] n = "Blue" -> "blue"
          [] OTHER -> n]

DetectCall(image_data) ==
    [op |-> "detect_colors", image_data |-> image_data,
     selected_colors |-> <<>>, config |-> NoConfig]

ExtractCall(image_data, selected_colors, config) ==
    [op |-> "extract_curves", image_data |-> image_data,
     selected_colors |-> selected_colors, config |-> config]

DetectCalls ==
    {DetectCall(Encoded(r)) : r \in SmallRasters}
    \cup {DetectCall(EmptyBuffer), DetectCall(Garbage)}

ExtractCalls ==
    {ExtractCall(Encoded(StepBlob), <<"red">>, c) : c \in Configs}
    \cup {ExtractCall(Encoded(StepBlob), sel, UnitConfig) :
            sel \in {<<"RED", "red">>, <<"red", "red2">>, <<"teal", "red">>,
                     <<"teal", "blue">>, <<"teal">>, <<"red2">>, <<>>}}
    \cup {ExtractCall(Encoded(TwoBlocks), sel, UnitConfig) :
            sel \in {<<"red", "Blue">>, <<"blue">>}}
    \cup {ExtractCall(Encoded(r), <<"red">>, UnitConfig) :
            r \in {SmallBlob, Block999, Block1000}}
    \cup {ExtractCall(EmptyBuffer, <<"red">>, UnitConfig),
          ExtractCall(Garbage, <<"red">>, UnitConfig)}

Calls == DetectCalls \cup ExtractCalls

\* the end-to-end scenario on the lines of 1000 x 1000
Scenario3Call == ExtractCall(Encoded(Scenario3Image), <<"red", "blue">>, UnitConfig)

\* the calls of the end-to-end scenarios, on the literal 1000 x 1000 images,
\* beside the calls on the small images
ScenarioCalls ==
    DetectCalls
    \cup {DetectCall(Encoded(SolidRed1000)), Scenario3Call,
          ExtractCall(Encoded(Scenario3Image), <<"teal">>, UnitConfig),
          ExtractCall(Encoded(Block999), <<"red">>, UnitConfig),
          ExtractCall(Encoded(Block1000), <<"red">>, UnitConfig),
          ExtractCall(Encoded(Wide1050), <<"red">>, UnitConfig),
          ExtractCall(Encoded(Wide1110), <<"red">>, UnitConfig),
          ExtractCall(Garbage, <<"red">>, UnitConfig)}

\* the calls that are made twice
RepeatCalls ==
    {DetectCall(Encoded(Solid(1, 1, Amber))), DetectCall(Encoded(TwoTone)),
     DetectCall(EmptyBuffer), DetectCall(Garbage),
     ExtractCall(Encoded(TwoBlocks), <<"red", "Blue">>, UnitConfig),
     ExtractCall(Encoded(StepBlob), <<"red">>, UnitConfig),
     ExtractCall(Garbage, <<"red">>, UnitConfig)}

\* ------------------------------------------------------------------------
\* State
\* ------------------------------------------------------------------------

VARIABLES
    pc,                     \* "start", "detect_loop", "extract_loops", "done"
    call,                   \* the entry point called and its arguments
    image,                  \* rgb_image, once decoded
    iterated,               \* the keys the running HashMap loop has yielded
    detected_colors,        \* detect_colors: Vec<DetectedColor>
    processed_base_colors,  \* detect_colors: HashSet
    i,                      \* extract_curves: place in selected_colors
    base_color_points,      \* extract_curves: HashMap<String, Vec<(f64, f64)>>
    curves,                 \* extract_curves: Vec<CurveData>
    final_points,           \* extract_curves: final_points of the last curve built
    result,                 \* what the call returned
    prev                    \* what the call before it, with the same arguments, returned

vars ==
    <<pc, call, image, iterated, detected_colors, processed_base_colors, i,
      base_color_points, curves, final_points, result, prev>>

EmptyMap == <<>>

\* the locals of a call that has not begun
Fresh ==
    /\ pc = "start"
    /\ image = NoRaster
    /\ iterated = {}
    /\ detected_colors = <<>>
    /\ processed_base_colors = {}
    /\ i = 1
    /\ base_color_points = EmptyMap
    /\ curves = <<>>
    /\ final_points = <<>>
    /\ result = NoResult

Init ==
    /\ call \in Calls
    /\ Fresh
    /\ prev = NoResult

ScenarioInit ==
    /\ call \in ScenarioCalls
    /\ Fresh
    /\ prev = NoResult

RepeatInit ==
    /\ call \in RepeatCalls
    /\ Fresh
    /\ prev = NoResult

\* image::load_from_memory(image_data): the decoder takes an encoded image and
\* refuses anything else, a zero-byte buffer included.
Decodes(image_data) == image_data.kind = "encoded"

\* ------------------------------------------------------------------------
\* detect_colors, lines 617-675
\* ------------------------------------------------------------------------

\* The mutant of DetectEmpty: no test for a zero-byte buffer, which goes to
\* the decoder and fails there.
DetectEmptyDecodes ==
    /\ pc = "start" /\ call.op = "detect_colors"
    /\ call.image_data.kind = "empty"
    /\ result' = Err("Failed to load image")
    /\ pc' = "done"
    /\ UNCHANGED <<call, image, iterated, detected_colors, processed_base_colors, i,
                   base_color_points, curves, final_points, prev>>

\* if image_data.is_empty() { return Err(..) }
DetectEmpty ==
    /\ pc = "start" /\ call.op = "detect_colors"
    /\ call.image_data.kind = "empty"
    /\ result' = Err("Image data is empty")
    /\ pc' = "done"
    /\ UNCHANGED <<call, image, iterated, detected_colors, processed_base_colors, i,
                   base_color_points, curves, final_points, prev>>

DetectLoadFails ==
    /\ pc = "start" /\ call.op = "detect_colors"
    /\ call.image_data.kind # "empty"
    /\ ~Decodes(call.image_data)
    /\ result' = Err("Failed to load image")
    /\ pc' = "done"
    /\ UNCHANGED <<call, image, iterated, detected_colors, processed_base_colors, i,
                   base_color_points, curves, final_points, prev>>

DetectLoad ==
    /\ pc = "start" /\ call.op = "detect_colors"
    /\ call.image_data.kind # "empty"
    /\ Decodes(call.image_data)
    /\ image' = call.image_data.raster
    /\ pc' = "detect_loop"
    /\ UNCHANGED <<call, iterated, detected_colors, processed_base_colors, i,
                   base_color_points, curves, final_points, result, prev>>

\* One turn of `for (color_name, color_range) in color_ranges`: the HashMap
\* yields its entries in an order that differs from one map to the next, so
\* the turn takes any key not yet yielded.
DetectStep ==
    /\ pc = "detect_loop"
    /\ \E color_name \in PaletteKeys \ iterated :
        \E pixel_count \in {PixelCount(image, get_color_ranges[color_name])} :
            /\ iterated' = iterated \cup {color_name}
            /\ IF /\ ExceedsThreshold(pixel_count, MinPixels(image.w * image.h))
                  /\ get_color_ranges[color_name].base_color \notin processed_base_colors
               THEN /\ detected_colors' =
                        Append(detected_colors,
                               DetectedColor(get_color_ranges[color_name], pixel_count))
                    /\ processed_base_colors' =
                        MarkProcessed(processed_base_colors,
                                      get_color_ranges[color_name].base_color)
               ELSE UNCHANGED <<detected_colors, processed_base_colors>>
    /\ UNCHANGED <<pc, call, image, i, base_color_points, curves, final_points,
                   result, prev>>

DetectFinish ==
    /\ pc = "detect_loop"
    /\ iterated = PaletteKeys
    /\ result' = Ok(SortByPixelCount(detected_colors))
    /\ pc' = "done"
    /\ UNCHANGED <<call, image, iterated, detected_colors, processed_base_colors, i,
                   base_color_points, curves, final_points, prev>>

\* ------------------------------------------------------------------------
\* extract_curves, lines 439-614
\* ------------------------------------------------------------------------

ExtractLoadFails ==
    /\ pc = "start" /\ call.op = "extract_curves"
    /\ ~Decodes(call.image_data)
    /\ result' = Err("Failed to load image")
    /\ pc' = "done"
    /\ UNCHANGED <<call, image, iterated, detected_colors, processed_base_colors, i,
                   base_color_points, curves, final_points, prev>>

\* (auto_detect_grid_size is called next; its result is not used.)
ExtractLoad ==
    /\ pc = "start" /\ call.op = "extract_curves"
    /\ Decodes(call.image_data)
    /\ image' = call.image_data.raster
    /\ pc' = "extract_loops"
    /\ UNCHANGED <<call, iterated, detected_colors, processed_base_colors, i,
                   base_color_points, curves, final_points, result, prev>>

\* One turn of `for color_name in selected_colors`, lines 460-506.
ExtractColor ==
    /\ pc = "extract_loops"
    /\ i <= Len(call.selected_colors)
    /\ \E found \in {Lookup(to_lowercase[call.selected_colors[i]])} :
        IF found # {}
        THEN \E color_range \in found :
                base_color_points' =
                    ExtendEntry(base_color_points,
                                GroupKey(call.selected_colors[i], color_range),
                                MappedPoints(image, color_range, call.config))
        ELSE UNCHANGED base_color_points
    /\ i' = i + 1
    /\ UNCHANGED <<pc, call, image, iterated, detected_colors, processed_base_colors,
                   curves, final_points, result, prev>>

\* One turn of `for (base_color, points) in base_color_points`, lines 511-598;
\* the HashMap yields the base colors in any order.
ExtractCurve ==
    /\ pc = "extract_loops"
    /\ i > Len(call.selected_colors)
    /\ \E base_color \in (DOMAIN base_color_points) \ iterated :
        /\ iterated' = iterated \cup {base_color}
        /\ IF base_color_points[base_color] = <<>>
           THEN UNCHANGED <<curves, final_points>>
           ELSE /\ final_points' = FinalPoints(base_color_points[base_color])
                /\ curves' = Append(curves,
                                    CurveData(base_color, final_points', call.config))
    /\ UNCHANGED <<pc, call, image, detected_colors, processed_base_colors, i,
                   base_color_points, result, prev>>

\* Ok(ExtractionResult { .. }), lines 600-613.  total_points reads final_points,
\* a local of the loop body; the model gives it the value the last curve built
\* left there (none built: empty).
ExtractFinish ==
    /\ pc = "extract_loops"
    /\ i > Len(call.selected_colors)
    /\ (DOMAIN base_color_points) \subseteq iterated
    /\ result' = Ok([success |-> TRUE,
                     curves |-> curves,
                     total_points |-> Len(final_points),
                     processing_time |-> 0,
                     image_width |-> image.w,
                     image_height |-> image.h,
                     detected_colors |-> Cardinality(PaletteKeys),
                     extraction_method |-> "curve_extraction"])
    /\ pc' = "done"
    /\ UNCHANGED <<call, image, iterated, detected_colors, processed_base_colors, i,
                   base_color_points, curves, final_points, prev>>

\* The host calls the same entry point again with the same arguments.
Repeat ==
    /\ pc = "done"
    /\ prev = NoResult
    /\ prev' = result
    /\ pc' = "start"
    /\ image' = NoRaster
    /\ iterated' = {}
    /\ detected_colors' = <<>>
    /\ processed_base_colors' = {}
    /\ i' = 1
    /\ base_color_points' = EmptyMap
    /\ curves' = <<>>
    /\ final_points' = <<>>
    /\ result' = NoResult
    /\ UNCHANGED call

Next ==
    \/ DetectEmpty
    \/ DetectLoadFails
    \/ DetectLoad
    \/ DetectStep
    \/ DetectFinish
    \/ ExtractLoadFails
    \/ ExtractLoad
    \/ ExtractColor
    \/ ExtractCurve
    \/ ExtractFinish

RepeatNext == Next \/ Repeat

Spec == Init /\ [][Next]_vars

\* the calls on the small images and the literal scenarios
ScenarioSpec == ScenarioInit /\ [][Next]_vars

\* calls made twice
RepeatSpec == RepeatInit /\ [][RepeatNext]_vars

\* ------------------------------------------------------------------------
\* The stages on their own: each function, or loop body, applied to inputs
\* drawn from bounded sets
\* ------------------------------------------------------------------------

\* the grid of the small masks
StageW == 5

StageH == 4

\* most y values in a bin
MaxBin == 3

\* most binned points of a curve
MaxCurveLen == 64

\* most binned points the smoothing window is computed for
MaxPoints == 400

\* the channel values of the pixels
ChannelValues == {0, 20, 30, 128, 200, 255}

\* the pixels of the rectangle (x0, y0)..(x1, y1) of a grid of width `width`
Block(x0, y0, x1, y1, width) == {y * width + x : x \in x0..x1, y \in y0..y1}

GridRects ==
    {Block(x0, y0, x1, y1, StageW) :
        x0 \in 0..(StageW - 1), x1 \in 0..(StageW - 1),
        y0 \in 0..(StageH - 1), y1 \in 0..(StageH - 1)}

\* the small masks: nothing, a rectangle, or a rectangle and one more pixel
GridMasks ==
    {a \cup b : a \in GridRects, b \in {{}} \cup {{p} : p \in 0..(StageW * StageH - 1)}}

\* a vertical line 1 pixel wide and 500 pixels tall in a 1000 x 1000 image
VerticalLine == Block(500, 250, 500, 749, 1000)

\* in a 12 x 12 image: a bar of 3 x 10 pixels (aspect 0.3), a bar of 10 x 1
\* pixels (aspect 10), and bars just inside the two bounds
Bar3x10 == Block(1, 1, 3, 10, 12)

Bar10x1 == Block(1, 5, 10, 5, 12)

Bar4x10 == Block(1, 1, 4, 10, 12)

Bar9x1 == Block(1, 5, 9, 5, 12)

\* the y values of the bins
YSamples == {Num(0), Rat(1, 10), Rat(3, 10), Rat(1, 2), Num(1), Num(2)}

BinInputs == UNION {[1..n -> YSamples] : n \in 1..MaxBin}

\* n binned points in ascending x, with y values that go up and down
Zigzag(n) == SubSeq([j \in 1..n |-> <<Rat(j, 100), Num((j * j) % 7)>>], 1, n)

HsvCall(pixel) == [op |-> "rgb_to_hsv", pixel |-> pixel]

OpenCall(mask, width, height) ==
    [op |-> "morphological_open", mask |-> mask, width |-> width, height |-> height]

FilterCall(mask, width, height, min_size) ==
    [op |-> "filter_connected_components", mask |-> mask, width |-> width,
     height |-> height, min_size |-> min_size]

BinCall(bin_x, y_vals) == [op |-> "bin", bin_x |-> bin_x, y_vals |-> y_vals]

WindowCall(base_color, len) ==
    [op |-> "smooth_window", base_color |-> base_color, len |-> len]

CurveCall(base_color, points, config) ==
    [op |-> "curve", base_color |-> base_color, final_points |-> points,
     config |-> config]

StageCalls ==
    {HsvCall(<<r, g, b>>) : r \in ChannelValues, g \in ChannelValues, b \in ChannelValues}
    \cup {OpenCall(m, StageW, StageH) : m \in GridMasks}
    \cup {OpenCall(m, 12, 12) : m \in {Bar4x10, Bar10x1}}
    \cup {FilterCall(m, StageW, StageH, s) : m \in GridMasks, s \in {1, 4}}
    \cup {FilterCall(VerticalLine, 1000, 1000, s) : s \in {1, 1000}}
    \cup {FilterCall(m, 12, 12, 1) : m \in {Bar3x10, Bar10x1, Bar4x10, Bar9x1}}
    \cup {BinCall(k, ys) : k \in {-1, 3}, ys \in BinInputs}
    \cup {WindowCall(c, n) : c \in {"red", "blue", "green"}, n \in 0..MaxPoints}
    \cup {CurveCall(c, Zigzag(n), cfg) :
            c \in {"red", "blue", "green"}, n \in 0..MaxCurveLen,
            cfg \in {UnitConfig, TallConfig}}

StageInit ==
    /\ call \in StageCalls
    /\ Fresh
    /\ prev = NoResult

\* rgb_to_hsv(pixel[0], pixel[1], pixel[2])
HsvStep ==
    /\ pc = "start" /\ call.op = "rgb_to_hsv"
    /\ result' = Ok(rgb_to_hsv(call.pixel[1], call.pixel[2], call.pixel[3]))
    /\ pc' = "done"
    /\ UNCHANGED <<call, image, iterated, detected_colors, processed_base_colors, i,
                   base_color_points, curves, final_points, prev>>

\* morphological_open(&mask, width, height)
OpenStep ==
    /\ pc = "start" /\ call.op = "morphological_open"
    /\ result' = Ok(morphological_open(call.mask, call.width, call.height))
    /\ pc' = "done"
    /\ UNCHANGED <<call, image, iterated, detected_colors, processed_base_colors, i,
                   base_color_points, curves, final_points, prev>>

\* filter_connected_components(&mask, width, height, min_size)
FilterStep ==
    /\ pc = "start" /\ call.op = "filter_connected_components"
    /\ result' = Ok(filter_connected_components(call.mask, call.width, call.height,
                                                call.min_size))
    /\ pc' = "done"
    /\ UNCHANGED <<call, image, iterated, detected_colors, processed_base_colors, i,
                   base_color_points, curves, final_points, prev>>

\* one turn of `for (bin_x, y_vals) in data`: the points it pushes
BinStep ==
    /\ pc = "start" /\ call.op = "bin"
    /\ result' = Ok(BinPoints(call.bin_x, call.y_vals))
    /\ pc' = "done"
    /\ UNCHANGED <<call, image, iterated, detected_colors, processed_base_colors, i,
                   base_color_points, curves, final_points, prev>>

\* let smooth_window = match base_color.as_str() { ... }
WindowStep ==
    /\ pc = "start" /\ call.op = "smooth_window"
    /\ result' = Ok(SmoothWindow(call.base_color, call.len))
    /\ pc' = "done"
    /\ UNCHANGED <<call, image, iterated, detected_colors, processed_base_colors, i,
                   base_color_points, curves, final_points, prev>>

\* the rest of a turn of the loop over base colors, from final_points on:
\* the curve it pushes
CurveStep ==
    /\ pc = "start" /\ call.op = "curve"
    /\ result' = Ok(CurveData(call.base_color, call.final_points, call.config))
    /\ pc' = "done"
    /\ UNCHANGED <<call, image, iterated, detected_colors, processed_base_colors, i,
                   base_color_points, curves, final_points, prev>>

StageNext ==
    \/ HsvStep
    \/ OpenStep
    \/ FilterStep
    \/ BinStep
    \/ WindowStep
    \/ CurveStep

StageSpec == StageInit /\ [][StageNext]_vars

\* ------------------------------------------------------------------------
\* A name listed several times, then once
\* ------------------------------------------------------------------------

\* calls whose selected list repeats one name, in one or several letter cases
DuplicateCalls ==
    {ExtractCall(Encoded(StepBlob), sel, c) :
        sel \in {<<"red", "RED", "red">>, <<"RED", "red">>, <<"red", "red">>},
        c \in Configs}
    \cup {ExtractCall(Encoded(TwoBlocks), <<"blue", "Blue">>, UnitConfig),
          ExtractCall(Garbage, <<"red", "red">>, UnitConfig)}

DuplicateInit ==
    /\ call \in DuplicateCalls
    /\ Fresh
    /\ prev = NoResult

\* The host calls extract_curves again, on the same image and config, with
\* the name listed once.
ListedOnce ==
    /\ pc = "done"
    /\ prev = NoResult
    /\ prev' = result
    /\ call' = [call EXCEPT !.selected_colors = <<to_lowercase[call.selected_colors[1]]>>]
    /\ pc' = "start"
    /\ image' = NoRaster
    /\ iterated' = {}
    /\ detected_colors' = <<>>
    /\ processed_base_colors' = {}
    /\ i' = 1
    /\ base_color_points' = EmptyMap
    /\ curves' = <<>>
    /\ final_points' = <<>>
    /\ result' = NoResult

DuplicateNext ==
    \/ ExtractLoadFails
    \/ ExtractLoad
    \/ ExtractColor
    \/ ExtractCurve
    \/ ExtractFinish
    \/ ListedOnce

DuplicateSpec == DuplicateInit /\ [][DuplicateNext]_vars

\* ------------------------------------------------------------------------
\* Properties
\* ------------------------------------------------------------------------

DetectDone == pc = "done" /\ call.op = "detect_colors" /\ result.ok

ExtractDone == pc = "done" /\ call.op = "extract_curves" /\ result.ok

\* the curves of a finished extraction
ReturnedCurves ==
    {result.value.curves[n] : n \in 1..Len(result.value.curves)}

\* floor(0.0005 * W * H) for the decoded image
Floor0005 == (5 * image.w * image.h) \div 10000

NamesOf(colors) == {colors[n].name : n \in 1..Len(colors)}

DistinctNames(colors) ==
    \A m, n \in 1..Len(colors) : m # n => colors[m].name # colors[n].name

NonDecreasingX(points) ==
    \A m, n \in 1..Len(points) : m < n => FLe(points[m].x, points[n].x)

\* the floating-point tolerance of a range test
Eps == Rat(1, 100000)

\* C1 (as stated): in every curve extract_curves returns, for any image,
\* selected list and config (any x_scale included), the points are in
\* non-decreasing x order after scaling.
C1_SortedAfterScaling ==
    ExtractDone => \A c \in ReturnedCurves : NonDecreasingX(c.points)

\* C2 (as stated): every point of every returned curve lies inside the scaled
\* axis range, min(x_min, x_max) * x_scale - eps <= p.x <=
\* max(x_min, x_max) * x_scale + eps, and likewise for y.
C2_InsideScaledRange ==
    ExtractDone =>
        \A c \in ReturnedCurves : \A n \in 1..Len(c.points) :
            /\ FLe(FSub(FMul(FMin(call.config.x_min, call.config.x_max), call.config.x_scale), Eps),
                   c.points[n].x)
            /\ FLe(c.points[n].x,
                   FAdd(FMul(FMax(call.config.x_min, call.config.x_max), call.config.x_scale), Eps))
            /\ FLe(FSub(FMul(FMin(call.config.y_min, call.config.y_max), call.config.y_scale), Eps),
                   c.points[n].y)
            /\ FLe(c.points[n].y,
                   FAdd(FMul(FMax(call.config.y_min, call.config.y_max), call.config.y_scale), Eps))

\* C3 (as stated): two calls with the same arguments return the same value,
\* the curves and the detected colors in the same order.
C3_SameResultTwice ==
    (pc = "done" /\ prev # NoResult) => result = prev

\* C4 (as stated): on the 1000 x 1000 image with the two 5-pixel lines,
\* extract_curves with ["red", "blue"] and the unit linear config returns
\* exactly 2 curves, each with at least one point.
C4_TwoCurves ==
    (pc = "done" /\ call = Scenario3Call) =>
        /\ result.ok
        /\ Len(result.value.curves) = 2
        /\ \A c \in ReturnedCurves : c.points # <<>>

\* C5 (as stated): a pixel (255,0,0) and a crimson pixel (200,20,30) both
\* match a palette range whose base-color tag is red.
C5_BothEndsRed ==
    \A c \in ImageColors(image) \cap {PureRed, Crimson} : "red" \in MatchedBases(c)

\* C6: detect_colors never holds two entries with the same name: the entries
\* pushed so far have pairwise different names, the names are exactly the base
\* colors recorded as processed, and so the returned list has at most one
\* entry per base color.
C6_OneEntryPerBase ==
    /\ DistinctNames(detected_colors)
    /\ (call.op = "detect_colors" /\ pc # "start") =>
            processed_base_colors = NamesOf(detected_colors)
    /\ DetectDone => DistinctNames(result.value)

\* detect_colors has returned several entries
C6_Witness ==
    DetectDone /\ Len(result.value) >= 2 /\ Cardinality(NamesOf(result.value)) >= 2

\* C7: every entry detect_colors pushes or returns has a pixel_count strictly
\* greater than floor(0.0005 * W * H), and a range yielded with a count of at
\* most that value has no entry.
C7_AboveThreshold ==
    /\ \A n \in 1..Len(detected_colors) : detected_colors[n].pixel_count > Floor0005
    /\ DetectDone => \A n \in 1..Len(result.value) : result.value[n].pixel_count > Floor0005
    /\ pc = "detect_loop" =>
        \A k \in iterated :
            PixelCount(image, get_color_ranges[k]) <= Floor0005 =>
                \A n \in 1..Len(detected_colors) :
                    detected_colors[n] # DetectedColor(get_color_ranges[k],
                                                       PixelCount(image, get_color_ranges[k]))

\* detect_colors has returned for an image in which a range matches as many
\* pixels as the threshold, not more, and the range has no entry
C7_Witness ==
    /\ DetectDone
    /\ Floor0005 >= 1
    /\ PixelCount(image, get_color_ranges["red"]) = Floor0005
    /\ "red" \notin NamesOf(result.value)

\* C8 (as stated): every entry detect_colors returns has a pixel count above
\* max(1, floor(0.0005 * W * H)); with W * H < 2000 a color matched by exactly
\* one pixel is not returned.
C8_AboveMaxOfOne ==
    DetectDone =>
        \A n \in 1..Len(result.value) :
            result.value[n].pixel_count > (IF Floor0005 < 1 THEN 1 ELSE Floor0005)

\* C8 (amended): detect_colors returns a base color exactly when one of its
\* palette ranges matches more than floor(0.0005 * W * H) pixels; there is no
\* floor of 1, so with W * H < 2000 the threshold is 0 and a color matched by
\* exactly one pixel is returned.
C8_AboveFloorOnly ==
    DetectDone =>
        \A k \in PaletteKeys :
            /\ (get_color_ranges[k].base_color \in NamesOf(result.value))
                <=> (\E kk \in PaletteKeys :
                        /\ get_color_ranges[kk].base_color = get_color_ranges[k].base_color
                        /\ PixelCount(image, get_color_ranges[kk]) > Floor0005)
            /\ (image.w * image.h < 2000 /\ PixelCount(image, get_color_ranges[k]) = 1)
                => get_color_ranges[k].base_color \in NamesOf(result.value)

\* detect_colors has returned, for an image of fewer than 2000 pixels, an
\* entry with a pixel count of 1
C8_Witness ==
    /\ DetectDone
    /\ image.w * image.h < 2000
    /\ \E n \in 1..Len(result.value) : result.value[n].pixel_count = 1

\* C9: the list detect_colors returns is in non-increasing order of
\* pixel_count, and every pixel_count is at most W * H.
C9_SortedByCount ==
    DetectDone =>
        /\ \A m, n \in 1..Len(result.value) :
            m < n => result.value[m].pixel_count >= result.value[n].pixel_count
        /\ \A n \in 1..Len(result.value) : result.value[n].pixel_count <= image.w * image.h

\* detect_colors has returned entries of different counts that it had pushed
\* smallest first
C9_Witness ==
    /\ DetectDone
    /\ Len(detected_colors) >= 2
    /\ detected_colors[1].pixel_count < detected_colors[2].pixel_count
    /\ result.value[1].pixel_count > result.value[Len(result.value)].pixel_count

\* C10: for an image of pure red pixels only, detect_colors returns exactly
\* one entry, with name "red", color "#FF0000" and pixel_count = W * H.
C10_SolidRed ==
    (DetectDone /\ image.rects = <<>> /\ image.bg = PureRed) =>
        /\ Len(result.value) = 1
        /\ result.value[1].name = "red"
        /\ result.value[1].color = "#FF0000"
        /\ result.value[1].pixel_count = image.w * image.h

\* detect_colors has returned the one entry of the solid red 1000 x 1000 image
C10_Witness ==
    /\ DetectDone
    /\ image = SolidRed1000
    /\ Len(result.value) = 1
    /\ result.value[1].pixel_count = 1000000


\* the base-color tags of the palette
PaletteBases == {get_color_ranges[k].base_color : k \in PaletteKeys}

\* the palette ranges of one base color
RangesOfBase(base) ==
    {get_color_ranges[k] : k \in {kk \in PaletteKeys : get_color_ranges[kk].base_color = base}}

\* the base colors of the palette entries whose keys are the selected names,
\* in lower case
SelectedBases ==
    {get_color_ranges[k].base_color :
        k \in {to_lowercase[call.selected_colors[n]] :
                    n \in 1..Len(call.selected_colors)} \cap PaletteKeys}

ExtractReturned == pc = "done" /\ call.op = "extract_curves"

\* the pixels that the palette entries under the selected names n..Len, of
\* base color base, leave after the mask stages, counted once per selected name
RECURSIVE SelectedPixels(_, _)
SelectedPixels(base, n) ==
    IF n > Len(call.selected_colors) THEN 0
    ELSE SelectedPixels(base, n + 1)
         + (IF /\ to_lowercase[call.selected_colors[n]] \in PaletteKeys
               /\ get_color_ranges[to_lowercase[call.selected_colors[n]]].base_color = base
            THEN Cardinality(FilteredMask(image, get_color_ranges[to_lowercase[call.selected_colors[n]]]))
            ELSE 0)

RECURSIVE SumPointCounts(_, _)
SumPointCounts(cs, n) ==
    IF n > Len(cs) THEN 0 ELSE cs[n].point_count + SumPointCounts(cs, n + 1)

\* an axis of scale type "log" has an endpoint <= 0
LogNonPositive(config) ==
    \/ config.x_scale_type = "log"
        /\ (FLe(config.x_min, Num(0)) \/ FLe(config.x_max, Num(0)))
    \/ config.y_scale_type = "log"
        /\ (FLe(config.y_min, Num(0)) \/ FLe(config.y_max, Num(0)))

\* S_min = max(1000, floor(W * H / 1000)) for the decoded image
SMin ==
    IF (image.w * image.h) \div 1000 > 1000 THEN (image.w * image.h) \div 1000 ELSE 1000

\* C11: every curve extract_curves builds or returns has as its name the
\* base-color tag of a palette entry, whatever the selected list holds.
C11_NamesArePaletteBases ==
    /\ \A n \in 1..Len(curves) : curves[n].name \in PaletteBases
    /\ DOMAIN base_color_points \subseteq PaletteBases
    /\ ExtractDone => \A c \in ReturnedCurves : c.name \in PaletteBases

\* extract_curves has returned a curve for a selected list with a name in
\* upper case
C11_Witness ==
    /\ ExtractDone
    /\ \E n \in 1..Len(call.selected_colors) : call.selected_colors[n] = "RED"
    /\ Len(result.value.curves) >= 1

\* C12: no two curves of one result of extract_curves have the same name;
\* there are no more curves than base colors among the ranges selected, and the
\* point cloud of a base color holds the points of every selected range of
\* that base color.
C12_OneCurvePerBase ==
    /\ DistinctNames(curves)
    /\ ExtractDone =>
        /\ DistinctNames(result.value.curves)
        /\ Len(result.value.curves) <= Cardinality(SelectedBases)
    /\ (pc = "extract_loops" /\ i > Len(call.selected_colors) /\ iterated = {}) =>
        \A b \in DOMAIN base_color_points :
            Len(base_color_points[b]) = SelectedPixels(b, 1)

\* extract_curves has returned one curve, named red, for the selected list
\* ["red", "red2"]
C12_Witness ==
    /\ ExtractDone
    /\ call.selected_colors = <<"red", "red2">>
    /\ Len(result.value.curves) = 1
    /\ result.value.curves[1].name = "red"

\* C13 (as stated): for a selected name that is a base color, in any letter
\* case, extract_curves looks up every palette range of that base color, so
\* that selecting "red" processes the low-hue and the high-hue range.
C13_EveryRangeOfBase ==
    (pc = "extract_loops" /\ i <= Len(call.selected_colors)
        /\ to_lowercase[call.selected_colors[i]] \in PaletteBases) =>
        Lookup(to_lowercase[call.selected_colors[i]])
            = RangesOfBase(to_lowercase[call.selected_colors[i]])

\* C14 (as stated): in a successful result of extract_curves, total_points is
\* the sum of the point_count of the curves, and the point_count of a curve is
\* the number of its points.
C14_TotalIsSum ==
    ExtractDone =>
        /\ result.value.total_points = SumPointCounts(result.value.curves, 1)
        /\ \A c \in ReturnedCurves : c.point_count = Len(c.points)

C16_DetectEmptyInput ==
    (call.op = "detect_colors" /\ call.image_data.kind = "empty") =>
        /\ pc \in {"start", "done"}
        /\ image = NoRaster
        /\ detected_colors = <<>>
        /\ pc = "done" => result = Err("Image data is empty")

\* detect_colors has returned the error of an empty input
C16_Witness ==
    /\ pc = "done" /\ call.op = "detect_colors"
    /\ call.image_data.kind = "empty"
    /\ ~result.ok
    /\ result.error = "Image data is empty"

\* C17 (as stated): extract_curves called with a zero-byte buffer returns the
\* error of an empty input, not the error of the decoder.
C17_ExtractEmptyInput ==
    (ExtractReturned /\ call.image_data.kind = "empty") =>
        /\ ~result.ok
        /\ result.error = "Image data is empty"
        /\ result.error # "Failed to load image"

\* C18 (as stated): with an axis of scale type "log" that has an endpoint <= 0,
\* extract_curves computes no points and returns an InvalidConfig error.
C18_LogEndpointRejected ==
    (call.op = "extract_curves" /\ Decodes(call.image_data)
        /\ LogNonPositive(call.config)) =>
        /\ base_color_points = EmptyMap
        /\ curves = <<>>
        /\ pc = "done" => (~result.ok /\ result.error = "InvalidConfig")

\* C19 (as stated): with x_min >= x_max, or y_min >= y_max, or a scale type
\* other than "linear" and "log", extract_curves returns an InvalidConfig
\* error.
C19_BadConfigRejected ==
    (ExtractReturned /\ Decodes(call.image_data)
        /\ (\/ FGe(call.config.x_min, call.config.x_max)
            \/ FGe(call.config.y_min, call.config.y_max)
            \/ call.config.x_scale_type \notin {"linear", "log"}
            \/ call.config.y_scale_type \notin {"linear", "log"})) =>
        (~result.ok /\ result.error = "InvalidConfig")

\* C20: the pixels that pass the component filter of extract_curves come in
\* components of at least S_min = max(1000, floor(W * H / 1000)) pixels: the
\* point cloud of a base color is empty or holds at least S_min points, and a
\* component of 999 pixels leaves none.
C20_SizeGate ==
    /\ \A b \in DOMAIN base_color_points :
        base_color_points[b] = <<>> \/ Len(base_color_points[b]) >= SMin
    /\ (call.op = "extract_curves" /\ image \in {Block999, Wide1050}) =>
        \A b \in DOMAIN base_color_points : base_color_points[b] = <<>>

\* extract_curves has returned no curve for the block of 999 pixels, whose
\* point cloud it has left empty
C20_Witness ==
    /\ ExtractDone
    /\ image = Block999
    /\ "red" \in DOMAIN base_color_points
    /\ base_color_points["red"] = <<>>
    /\ result.value.curves = <<>>

\* ------------------------------------------------------------------------
\* Properties of the stages
\* ------------------------------------------------------------------------

StageDone(op) == pc = "done" /\ call.op = op

\* p and q are different pixels that touch, by an edge or a corner
Adjacent8(p, q, width) ==
    /\ p # q
    /\ AbsInt((p % width) - (q % width)) <= 1
    /\ AbsInt((p \div width) - (q \div width)) <= 1

RECURSIVE Reach(_, _, _)

ReachMore(mask, width, S, T) ==
    IF T = {} THEN S ELSE Reach(mask, width, S \cup T)

\* the pixels of the mask that a path of touching mask pixels joins to S
Reach(mask, width, S) ==
    ReachMore(mask, width, S,
              {q \in mask : q \notin S /\ \E p \in S : Adjacent8(p, q, width)})

\* the 8-connected component of the mask that holds p
ComponentOf(mask, width, p) == Reach(mask, width, {p})

BoxWidth(C, width) ==
    ((CHOOSE a \in C : \A b \in C : b % width <= a % width) % width)
    - ((CHOOSE a \in C : \A b \in C : a % width <= b % width) % width) + 1

BoxHeight(C, width) ==
    ((CHOOSE a \in C : \A b \in C : b \div width <= a \div width) \div width)
    - ((CHOOSE a \in C : \A b \in C : a \div width <= b \div width) \div width) + 1

\* 0.3 < w / h < 10, in integers
AspectInside(w, h) == 3 * h < 10 * w /\ w < 10 * h

PassesGates(C, width, min_size) ==
    /\ Cardinality(C) >= min_size
    /\ AspectInside(BoxWidth(C, width), BoxHeight(C, width))

\* a mask small enough to take its components pixel by pixel
SmallMask(mask) == Cardinality(mask) <= 64

NotOnBorder(p, width, height) ==
    /\ 0 < p % width /\ p % width < width - 1
    /\ 0 < p \div width /\ p \div width < height - 1

\* the 3 x 3 neighbourhood of a pixel that is not on the border
Around(p, width) ==
    {y * width + x : x \in ((p % width) - 1)..((p % width) + 1),
                     y \in ((p \div width) - 1)..((p \div width) + 1)}

Clamped(v, lo, hi) == IF v < lo THEN lo ELSE IF hi < v THEN hi ELSE v

\* the smoothing window of a curve of n binned points
ClaimedWindow(base_color, n) ==
    IF base_color = "red" THEN Clamped(n \div 10, 5, 25)
    ELSE IF base_color = "blue" THEN Clamped(n \div 12, 5, 20)
    ELSE Clamped(n \div 15, 3, 15)

\* the median of a sorted bin: the middle value, or the mean of the two
MiddleOf(s) ==
    IF Len(s) % 2 = 1 THEN s[(Len(s) + 1) \div 2]
    ELSE FDiv(FAdd(s[Len(s) \div 2], s[Len(s) \div 2 + 1]), Num(2))

KeptAround(s, m) ==
    SelectSeq(s, LAMBDA y : FLt(FAbs(FSub(y, m)), Rat(4, 10)))

PointOfKept(bin_x, kept) ==
    IF kept = <<>> THEN <<>>
    ELSE << <<Rat(bin_x, 100), FDiv(Sum(kept), Num(Len(kept)))>> >>

XsOf(points) == SubSeq([n \in 1..Len(points) |-> points[n].x], 1, Len(points))

YsOf(points) == SubSeq([n \in 1..Len(points) |-> points[n].y], 1, Len(points))

TimesEach(values, scale) ==
    SubSeq([n \in 1..Len(values) |-> FMul(values[n], scale)], 1, Len(values))

PointOfSorted(bin_x, s) == PointOfKept(bin_x, KeptAround(s, MiddleOf(s)))

\* C21: a component survives the component filter only if its bounding box
\* of width w and height h has 0.3 < w / h < 10.0, both bounds strict; of the
\* vertical line of 1 x 500 pixels in a 1000 x 1000 image no pixel survives.
C21_AspectGate ==
    StageDone("filter_connected_components") =>
        /\ SmallMask(call.mask) =>
            \A p \in result.value :
                AspectInside(BoxWidth(ComponentOf(call.mask, call.width, p), call.width),
                             BoxHeight(ComponentOf(call.mask, call.width, p), call.width))
        /\ call.mask = VerticalLine => result.value = {}
        /\ call.mask \in {Bar3x10, Bar10x1} => result.value = {}

\* the filter has returned an empty mask for the vertical line, with a size
\* gate that the line passes
C21_Witness ==
    /\ StageDone("filter_connected_components")
    /\ call.mask = VerticalLine
    /\ call.min_size = 1
    /\ result.value = {}

\* C22 (as stated): for every pixel, rgb_to_hsv returns a hue H with
\* 0 <= H < 360 and S, V in [0, 1]; the hue is never negative.
C22_HueInRange ==
    StageDone("rgb_to_hsv") =>
        /\ FGe(result.value.h, Num(0)) /\ FLt(result.value.h, Num(360))
        /\ FGe(result.value.s, Num(0)) /\ FLe(result.value.s, Num(1))
        /\ FGe(result.value.v, Num(0)) /\ FLe(result.value.v, Num(1))

\* C23: morphological_open returns a mask of the same size in which a pixel p
\* is true iff p is not on the image border and some pixel q, not on the
\* border, of p's 3 x 3 neighbourhood has all 9 pixels of its own 3 x 3
\* neighbourhood true in the input; every border pixel of the output is false.
C23_OpenedMask ==
    StageDone("morphological_open") =>
        /\ result.value \subseteq 0..(call.width * call.height - 1)
        /\ \A p \in 0..(call.width * call.height - 1) :
            (p \in result.value) <=>
                (/\ NotOnBorder(p, call.width, call.height)
                 /\ \E q \in Around(p, call.width) :
                        /\ NotOnBorder(q, call.width, call.height)
                        /\ \A r \in Around(q, call.width) : r \in call.mask)

\* morphological_open has returned a mask that holds pixels and has lost the
\* input's pixels on the border
C23_Witness ==
    /\ StageDone("morphological_open")
    /\ result.value # {}
    /\ \E p \in call.mask : ~NotOnBorder(p, call.width, call.height)

\* C24: filter_connected_components returns, for every mask, exactly the
\* pixels of the 8-connected components of the mask that pass the size gate
\* and the aspect gate: every pixel of the mask is in the one component that
\* holds it, which is in the result whole or not at all.
C24_PassingComponents ==
    (StageDone("filter_connected_components") /\ SmallMask(call.mask)) =>
        /\ result.value =
            {p \in call.mask :
                PassesGates(ComponentOf(call.mask, call.width, p), call.width,
                            call.min_size)}
        /\ \A p \in call.mask :
            \/ ComponentOf(call.mask, call.width, p) \subseteq result.value
            \/ ComponentOf(call.mask, call.width, p) \cap result.value = {}

\* the filter has returned a mask of two components or more, of which it has
\* kept one and dropped one
C24_Witness ==
    /\ StageDone("filter_connected_components")
    /\ SmallMask(call.mask)
    /\ result.value # {}
    /\ \E p \in call.mask : p \notin result.value
    /\ \E p \in result.value :
        ComponentOf(call.mask, call.width, p) = result.value

\* C25 (as stated): within one CurveData no two points have the same x.
C25_NoTwoPointsShareX ==
    ExtractDone =>
        \A c \in ReturnedCurves : \A m, n \in 1..Len(c.points) :
            m # n => c.points[m].x # c.points[n].x

\* C25 (amended): the binned points of a curve have pairwise different x
\* before scaling, one point per bin key; in the CurveData no two points have
\* the same x when x_scale is not 0, and with x_scale = 0 every point has x = 0.
C25_NoTiesUnlessZeroScale ==
    /\ \A m, n \in 1..Len(final_points) :
        m # n => final_points[m][1] # final_points[n][1]
    /\ (ExtractDone /\ call.config.x_scale # Num(0)) =>
        \A c \in ReturnedCurves : \A m, n \in 1..Len(c.points) :
            m # n => c.points[m].x # c.points[n].x
    /\ (ExtractDone /\ call.config.x_scale = Num(0)) =>
        \A c \in ReturnedCurves : \A n \in 1..Len(c.points) : c.points[n].x = Num(0)

\* extract_curves has returned a curve of several points, fewer than the
\* mapped points it was built from
C25_Witness ==
    /\ ExtractDone
    /\ call.config.x_scale # Num(0)
    /\ \E c \in ReturnedCurves :
        /\ Len(c.points) >= 2
        /\ Len(base_color_points[c.name]) > Len(c.points)

\* C26: for a bin, extract_curves takes the median m of the y values (the
\* mean of the two middle values for an even count), keeps the values with
\* |y - m| < 0.4, and pushes one point at x = key * 0.01 whose y is their
\* mean, or no point when it keeps no value.
C26_BinPoint ==
    StageDone("bin") =>
        result.value =
            PointOfSorted(call.bin_x, SortSeq(call.y_vals, LAMBDA a, b : FLt(a, b)))

\* a bin of an even count whose values all lie 0.4 or more from the median
\* has given no point
C26_Witness ==
    /\ StageDone("bin")
    /\ Len(call.y_vals) % 2 = 0
    /\ result.value = <<>>

\* C27: for a curve of n binned points the smoothing window is
\* w = clamp(n / 10, 5, 25) for red, clamp(n / 12, 5, 20) for blue and
\* clamp(n / 15, 3, 15) for any other base color; the y values are smoothed
\* with that window iff n > w; the curve has exactly n points, whose x are the
\* binned x times x_scale, in the same order.
C27_SmoothingWindow ==
    /\ StageDone("smooth_window") =>
            result.value = ClaimedWindow(call.base_color, call.len)
    /\ StageDone("curve") =>
        /\ Len(result.value.points) = Len(call.final_points)
        /\ result.value.point_count = Len(call.final_points)
        /\ XsOf(result.value.points)
            = TimesEach(FirstOf(call.final_points), call.config.x_scale)
        /\ YsOf(result.value.points)
            = TimesEach(IF Len(call.final_points)
                            > ClaimedWindow(call.base_color, Len(call.final_points))
                        THEN savgol_smooth(SecondOf(call.final_points),
                                           ClaimedWindow(call.base_color,
                                                         Len(call.final_points)))
                        ELSE SecondOf(call.final_points),
                        call.config.y_scale)

\* a blue curve of 60 binned points, whose window is 5 where that of red is
\* 6, has come out with 60 points and a smoothed y
C27_Witness ==
    /\ StageDone("curve")
    /\ call.base_color = "blue"
    /\ Len(call.final_points) = 60
    /\ Len(result.value.points) = 60
    /\ \E n \in 1..60 :
        result.value.points[n].y # FMul(call.final_points[n][2], call.config.y_scale)

\* C28: a call of extract_curves with a color name listed several times, in
\* one or several letter cases, returns the same curves as the call with the
\* name listed once: no more curves, and the same points.  Coordinates are
\* exact rationals here; the f64 sum of a doubled bin can differ from the
\* single one in its last bit, which this equality does not see.
C28_DuplicatesChangeNothing ==
    (ExtractReturned /\ prev # NoResult) =>
        /\ result.ok = prev.ok
        /\ result.ok =>
            /\ Len(prev.value.curves) = Len(result.value.curves)
            /\ prev.value.curves = result.value.curves

\* both calls have returned, each with one curve of several points
C28_Witness ==
    /\ ExtractReturned /\ prev # NoResult
    /\ Len(call.selected_colors) = 1
    /\ prev.ok /\ result.ok
    /\ Len(prev.value.curves) = 1
    /\ Len(prev.value.curves[1].points) >= 2

\* C29: the mask stages only remove pixels: every pixel of the output of
\* morphological_open is a pixel of its input, and every pixel of the output
\* of filter_connected_components is a pixel of its input.
C29_StagesOnlyRemove ==
    /\ StageDone("morphological_open") => result.value \subseteq call.mask
    /\ StageDone("filter_connected_components") => result.value \subseteq call.mask

\* morphological_open has returned a part, not all, of a mask
C29_Witness ==
    /\ StageDone("morphological_open")
    /\ Cardinality(result.value) >= 6
    /\ Cardinality(result.value) < Cardinality(call.mask)
=============================================================================
